---- MODULE Spec2Model ----
(***************************************************************************)
(* Model of the analytical-solve / simulate / verify triad of              *)
(* physics-ai: core/physics_solver.py, core/simulation_engine.py and       *)
(* core/verification.py.                                                   *)
(*                                                                         *)
(* Python floats are modelled by exact rationals <<n, d>> (d > 0, lowest   *)
(* terms).  math.sqrt is exact on rational squares and otherwise rounded   *)
(* down to 1/SqrtScale; math.pi is the rational Pi.  Python values of      *)
(* dynamic type (a Solution's answer) are tagged records.                  *)
(***************************************************************************)
EXTENDS Integers, Sequences, FiniteSets, TLC

(***************************************************************************)
(* Float arithmetic                                                        *)
(***************************************************************************)
Abs(x) == IF x < 0 THEN -x ELSE x

RECURSIVE Gcd(_, _)
Gcd(a, b) == IF b = 0 THEN a ELSE Gcd(b, a % b)

Q(n, d) ==
    LET s == IF d < 0 THEN -1 ELSE 1
        g == Gcd(Abs(n), Abs(d))
    IN  <<(s * n) \div g, (s * d) \div g>>

Zero == <<0, 1>>
One == <<1, 1>>
Half == <<1, 2>>

QAdd(a, b) == Q(a[1] * b[2] + b[1] * a[2], a[2] * b[2])
QSub(a, b) == Q(a[1] * b[2] - b[1] * a[2], a[2] * b[2])
\* products are cancelled crosswise first, which keeps the integers small
QMul(a, b) ==
    LET x == Q(a[1], b[2])
        y == Q(b[1], a[2])
    IN  Q(x[1] * y[1], x[2] * y[2])
QDiv(a, b) == QMul(a, Q(b[2], b[1]))
QNeg(a) == <<-a[1], a[2]>>
QAbs(a) == <<Abs(a[1]), a[2]>>
\* a/b < c/d for b, d > 0, by continued fractions (no products)
RECURSIVE Less(_, _, _, _)
Less(a, b, c, d) ==
    LET qa == a \div b
        qc == c \div d
        ra == a % b
        rc == c % d
    IN  IF qa # qc THEN qa < qc
        ELSE IF rc = 0 THEN FALSE
        ELSE IF ra = 0 THEN TRUE
        ELSE Less(d, rc, b, ra)

QLt(a, b) == Less(a[1], a[2], b[1], b[2])
QLe(a, b) == ~QLt(b, a)
QMax(a, b) == IF QLt(a, b) THEN b ELSE a
QInt(k) == <<k, 1>>

\* int(x): truncation toward zero
IntTrunc(a) == IF a[1] >= 0 THEN a[1] \div a[2] ELSE -((-a[1]) \div a[2])

SqrtScale == 100

RECURSIVE ISqrtSearch(_, _, _)
ISqrtSearch(n, lo, hi) ==
    IF lo >= hi THEN lo
    ELSE LET mid == (lo + hi + 1) \div 2
         IN  IF mid * mid <= n THEN ISqrtSearch(n, mid, hi)
             ELSE ISqrtSearch(n, lo, mid - 1)

ISqrt(n) == ISqrtSearch(n, 0, IF n < 46340 THEN n ELSE 46340)

\* math.sqrt on a non-negative float (the caller tests the sign: a negative
\* argument raises ValueError)
Sqrt(a) ==
    LET rn == ISqrt(a[1])
        rd == ISqrt(a[2])
    IN  IF rn * rn = a[1] /\ rd * rd = a[2] THEN Q(rn, rd)
        ELSE Q(ISqrt((a[1] \div a[2]) * SqrtScale * SqrtScale
                     + ((a[1] % a[2]) * SqrtScale * SqrtScale) \div a[2]),
               SqrtScale)

Pi == <<355, 113>>

\* math.sin(math.radians(a))^2 on the launch and release angles of the model
Sin2Deg(a) ==
    CASE a = 0 -> Zero
      [] a = 30 -> <<1, 4>>
      [] a = 45 -> <<1, 2>>
      [] a = 60 -> <<3, 4>>
      [] a = 90 -> One

SinDeg(a) == Sqrt(Sin2Deg(a))
CosDeg(a) == Sqrt(QSub(One, Sin2Deg(a)))

(***************************************************************************)
(* Program constants                                                       *)
(***************************************************************************)
GRAVITY == <<981, 100>>
time_step == <<1, 240>>
max_steps == 10000
radius == <<1, 10>>
agreement_threshold == <<1, 10>>
HIGH_CONFIDENCE_THRESHOLD == <<9, 10>>
MEDIUM_CONFIDENCE_THRESHOLD == <<7, 10>>

(***************************************************************************)
(* Python values and call results                                          *)
(***************************************************************************)
Missing == "<missing>"

\* dict.get(key, default) on a dict of floats
Get(d, key, default) == IF key \in DOMAIN d THEN d[key] ELSE default

\* quantity_asked is the one string entry of initial_conditions; it is kept
\* in its own field, Missing when the key is absent
GetQuantity(problem, default) ==
    IF problem.quantity_asked = Missing THEN default ELSE problem.quantity_asked

NoDict == [none |-> Zero]
SimNone == [kind |-> "none", d |-> NoDict]
SimError == [kind |-> "error", d |-> NoDict]
SimDict(d) == [kind |-> "dict", d |-> d]

\* truthiness of simulate's return value: None is falsy, a non-empty dict
\* (a result or {'error': ...}) is truthy
Truthy(sim_result) == sim_result.kind # "none"

\* sim_result.get(key, 0) on simulate's return value
SimGet(sim_result, key) ==
    IF sim_result.kind = "dict" THEN Get(sim_result.d, key, Zero) ELSE Zero

(***************************************************************************)
(* SimulationEngine                                                        *)
(***************************************************************************)
NoClient == "None"
PyBullet == "pybullet"

EngineInit == [connected |-> FALSE, client |-> NoClient]

_connect(eng, env) ==
    IF ~eng.connected
    THEN IF env.connectOk
         THEN [ok |-> TRUE, eng |-> [connected |-> TRUE, client |-> PyBullet]]
         ELSE [ok |-> FALSE, eng |-> [eng EXCEPT !.client = PyBullet]]
    ELSE [ok |-> TRUE, eng |-> eng]

_disconnect(eng, env) ==
    IF eng.connected /\ eng.client # NoClient
    THEN IF env.disconnectOk THEN [eng EXCEPT !.connected = FALSE] ELSE eng
    ELSE eng

Returns(ret, eng) == [ret |-> ret, eng |-> eng]

\* a loop that tests for the landing before it updates the maxima
RECURSIVE ProjectileLoopBreakFirst(_, _, _, _)
ProjectileLoopBreakFirst(traj, i, max_height, range_x) ==
    IF i > max_steps
    THEN [steps |-> max_steps, max_height |-> max_height, range_x |-> range_x]
    ELSE IF i > Len(traj)
    THEN [steps |-> max_steps, max_height |-> max_height, range_x |-> range_x]
    ELSE LET pos == traj[i]
         IN  IF QLe(pos.z, radius)
             THEN [steps |-> i, max_height |-> max_height, range_x |-> range_x]
             ELSE ProjectileLoopBreakFirst(traj, i + 1,
                                           QMax(max_height, pos.z),
                                           QMax(range_x, pos.x))

\* The stepping loop of simulate_projectile over the positions the physics
\* engine reports.  traj lists the positions of the first steps; the body
\* keeps its last listed position afterwards.
RECURSIVE ProjectileLoop(_, _, _, _)
ProjectileLoop(traj, i, max_height, range_x) ==
    IF i > max_steps
    THEN [steps |-> max_steps, max_height |-> max_height, range_x |-> range_x]
    ELSE IF i > Len(traj)
    THEN \* the body rests above the ground: every remaining step repeats
         \* the last position, the loop runs to its budget
         [steps |-> max_steps, max_height |-> max_height, range_x |-> range_x]
    ELSE LET pos == traj[i]
             mh == QMax(max_height, pos.z)
             rx == QMax(range_x, pos.x)
         IN  IF QLe(pos.z, radius)
             THEN [steps |-> i, max_height |-> mh, range_x |-> rx]
             ELSE ProjectileLoop(traj, i + 1, mh, rx)

simulate_projectile(eng, initial_velocity, angle, height, env) ==
    LET c == _connect(eng, env)
    IN  IF ~c.ok THEN Returns(SimNone, c.eng)
        ELSE IF ~env.engineOk THEN Returns(SimNone, _disconnect(c.eng, env))
        ELSE LET loop == ProjectileLoop(env.traj, 1, height, Zero)
                 result == [range |-> loop.range_x,
                            max_height |-> QSub(loop.max_height, radius),
                            time_flight |-> QMul(QInt(loop.steps), time_step)]
             IN  IF loop.steps = 0 THEN Returns(SimNone, c.eng)
                 ELSE Returns(SimDict(result), _disconnect(c.eng, env))

simulate_free_fall(eng, height, initial_velocity, time, env) ==
    LET c == _connect(eng, env)
        g == GRAVITY
    IN  IF ~c.ok THEN Returns(SimNone, c.eng)
        ELSE IF time[1] <= 0 /\ height[1] < 0
        THEN \* math.sqrt(2 * height / g) raises
             Returns(SimNone, _disconnect(c.eng, env))
        ELSE IF ~env.engineOk THEN Returns(SimNone, _disconnect(c.eng, env))
        ELSE LET theoretical_distance ==
                     IF time[1] > 0 THEN QMul(QMul(Half, g), QMul(time, time))
                     ELSE height
                 theoretical_velocity ==
                     IF time[1] > 0 THEN QMul(g, time)
                     ELSE Sqrt(QMul(QMul(QInt(2), g), height))
                 time_fall ==
                     IF time[1] > 0 THEN time
                     ELSE Sqrt(QDiv(QMul(QInt(2), height), g))
                 result == [distance |-> theoretical_distance,
                            final_velocity |-> theoretical_velocity,
                            time_fall |-> time_fall,
                            height |-> height,
                            initial_velocity |-> initial_velocity,
                            theoretical_distance |-> theoretical_distance,
                            theoretical_velocity |-> theoretical_velocity]
             IN  Returns(SimDict(result), _disconnect(c.eng, env))

\* angles[i] of simulate_pendulum: the engine's samples repeat env.swing
AngleAt(swing, i) == swing[(i % Len(swing)) + 1]

\* angles[i-1] * angles[i] < 0
Crossing(swing, i) == AngleAt(swing, i - 1) * AngleAt(swing, i) < 0

\* the zero_crossings list, as the set of the indices i in
\* range(1, len(angles)) it records (the entry for i is times[i])
ZeroCrossings(swing, steps) == {i \in 1..(steps - 1) : Crossing(swing, i)}

\* zero_crossings[0] and zero_crossings[-1]: the list is built in index order
FirstCrossing(swing, steps) ==
    CHOOSE i \in 1..(steps - 1) :
        Crossing(swing, i) /\ \A j \in 1..(i - 1) : ~Crossing(swing, j)
LastCrossing(swing, steps) ==
    CHOOSE i \in 1..(steps - 1) :
        Crossing(swing, i) /\ \A j \in (i + 1)..(steps - 1) : ~Crossing(swing, j)

\* times[i]
TimeAt(i) == QMul(QInt(i), time_step)

SmallAnglePeriod(length) ==
    QMul(QMul(QInt(2), Pi), Sqrt(QDiv(length, GRAVITY)))

PendulumSteps(length) ==
    IntTrunc(QDiv(QMul(QInt(3), SmallAnglePeriod(length)), time_step))

\* a measured period that is the average spacing, not twice it
simulate_pendulum_half_period(eng, length, initial_angle, env) ==
    LET c == _connect(eng, env)
    IN  IF ~c.ok THEN Returns(SimNone, c.eng)
        ELSE IF ~env.engineOk THEN Returns(SimNone, _disconnect(c.eng, env))
        ELSE IF length[1] < 0
        THEN \* math.sqrt(length / 9.81) raises
             Returns(SimNone, _disconnect(c.eng, env))
        ELSE LET steps == PendulumSteps(length)
                 zero_crossings == ZeroCrossings(env.swing, steps)
                 n == Cardinality(zero_crossings)
                 period ==
                     IF n >= 2
                     THEN QDiv(QMul(QInt(1),
                                    QSub(TimeAt(LastCrossing(env.swing, steps)),
                                         TimeAt(FirstCrossing(env.swing, steps)))),
                               QInt(n - 1))
                     ELSE SmallAnglePeriod(length)
             IN  IF steps <= 0 THEN Returns(SimNone, c.eng)
                 ELSE Returns(SimDict([period |-> period]),
                              _disconnect(c.eng, env))

simulate_pendulum(eng, length, initial_angle, env) ==
    LET c == _connect(eng, env)
    IN  IF ~c.ok THEN Returns(SimNone, c.eng)
        ELSE IF ~env.engineOk THEN Returns(SimNone, _disconnect(c.eng, env))
        ELSE IF length[1] < 0
        THEN \* math.sqrt(length / 9.81) raises
             Returns(SimNone, _disconnect(c.eng, env))
        ELSE LET steps == PendulumSteps(length)
                 zero_crossings == ZeroCrossings(env.swing, steps)
                 n == Cardinality(zero_crossings)
                 period ==
                     IF n >= 2
                     THEN QDiv(QMul(QInt(2),
                                    QSub(TimeAt(LastCrossing(env.swing, steps)),
                                         TimeAt(FirstCrossing(env.swing, steps)))),
                               QInt(n - 1))
                     ELSE SmallAnglePeriod(length)
             IN  IF steps <= 0 THEN Returns(SimNone, c.eng)
                 ELSE Returns(SimDict([period |-> period]),
                              _disconnect(c.eng, env))

\* a general branch that loses the factor 2 of v_b_final
simulate_collision_half_transfer(eng, mass_a, mass_b, velocity_a, velocity_b) ==
    IF mass_a = mass_b
    THEN Returns(SimDict([velocity_a_final |-> velocity_b,
                          velocity_b_final |-> velocity_a]), eng)
    ELSE IF QAdd(mass_a, mass_b) = Zero
    THEN Returns(SimNone, eng)
    ELSE LET total == QAdd(mass_a, mass_b)
             v_a_final ==
                 QAdd(QMul(QDiv(QSub(mass_a, mass_b), total), velocity_a),
                      QMul(QDiv(QMul(QInt(2), mass_b), total), velocity_b))
             v_b_final ==
                 QAdd(QMul(QDiv(mass_a, total), velocity_a),
                      QMul(QDiv(QSub(mass_b, mass_a), total), velocity_b))
         IN  Returns(SimDict([velocity_a_final |-> v_a_final,
                              velocity_b_final |-> v_b_final]), eng)

simulate_collision(eng, mass_a, mass_b, velocity_a, velocity_b) ==
    IF mass_a = mass_b
    THEN Returns(SimDict([velocity_a_final |-> velocity_b,
                          velocity_b_final |-> velocity_a]), eng)
    ELSE IF QAdd(mass_a, mass_b) = Zero
    THEN \* ZeroDivisionError, caught: return None
         Returns(SimNone, eng)
    ELSE LET total == QAdd(mass_a, mass_b)
             v_a_final ==
                 QAdd(QMul(QDiv(QSub(mass_a, mass_b), total), velocity_a),
                      QMul(QDiv(QMul(QInt(2), mass_b), total), velocity_b))
             v_b_final ==
                 QAdd(QMul(QDiv(QMul(QInt(2), mass_a), total), velocity_a),
                      QMul(QDiv(QSub(mass_b, mass_a), total), velocity_b))
         IN  Returns(SimDict([velocity_a_final |-> v_a_final,
                              velocity_b_final |-> v_b_final]), eng)

simulate(eng, problem, env) ==
    LET ic == problem.initial_conditions
    IN  CASE problem.problem_type = "projectile" ->
               simulate_projectile(eng, Get(ic, "initial_velocity", Zero),
                                   Get(ic, "angle", 45),
                                   Get(ic, "height", Zero), env)
          [] problem.problem_type = "free_fall" ->
               simulate_free_fall(eng, Get(ic, "height", Zero),
                                  Get(ic, "initial_velocity", Zero),
                                  Get(ic, "time", Zero), env)
          [] problem.problem_type = "pendulum" ->
               simulate_pendulum(eng, Get(ic, "length", One),
                                 Get(ic, "initial_angle", 30), env)
          [] problem.problem_type = "collision" ->
               IF Len(problem.objects) < 2
               THEN \* IndexError, caught by simulate
                    Returns(SimError, eng)
               ELSE simulate_collision(eng, problem.objects[1].mass,
                                       problem.objects[2].mass,
                                       problem.objects[1].velocity.v,
                                       problem.objects[2].velocity.v)
          [] OTHER -> \* ValueError("Unsupported problem type"), caught
               Returns(SimError, eng)

(***************************************************************************)
(* PhysicsSolver                                                           *)
(***************************************************************************)
\* a Python value of dynamic type: a float, a list, a non-numeric value
\* (a string) or None
NumV(q) == [t |-> "num", q |-> q, xs |-> <<>>]
ListV(xs) == [t |-> "list", q |-> Zero, xs |-> xs]
StrV == [t |-> "str", q |-> Zero, xs |-> <<>>]
NoneV == [t |-> "none", q |-> Zero, xs |-> <<>>]

\* the outcome of solve_problem: a Solution, or the exception it raises
Raise(exc, msg) ==
    [kind |-> "raise", exc |-> exc, msg |-> msg, answer |-> NoneV,
     unit |-> "", method |-> "", steps |-> 0, confidence |-> Zero,
     visualization_data |-> NoDict]

\* Solution(answer, unit, steps, method='analytical', visualization_data);
\* confidence keeps the dataclass default 1.0; steps is len(steps)
Solution(answer, unit, steps, result) ==
    [kind |-> "solution", exc |-> "", msg |-> "", answer |-> answer,
     unit |-> unit, method |-> "analytical", steps |-> steps,
     confidence |-> One, visualization_data |-> result]

\* the result dict of a family solver, or the {'error': ...} dict
Solved(d) == [kind |-> "dict", d |-> d]
SolveError == [kind |-> "error", d |-> NoDict]

\* the second half of _solve_projectile_motion: what follows from the time
\* of flight
ProjectileResult(v0x, v0y, height, time_flight) ==
    LET range_x == QMul(v0x, time_flight)
        time_to_max == QDiv(v0y, GRAVITY)
        max_height ==
            QSub(QAdd(height, QMul(v0y, time_to_max)),
                 QMul(QMul(Half, GRAVITY), QMul(time_to_max, time_to_max)))
        final_velocity_y == QSub(v0y, QMul(GRAVITY, time_flight))
        final_velocity ==
            Sqrt(QAdd(QMul(v0x, v0x), QMul(final_velocity_y, final_velocity_y)))
    IN  Solved([range |-> range_x, time_flight |-> time_flight,
                max_height |-> max_height,
                final_velocity |-> final_velocity,
                height |-> height])

_solve_projectile_motion(initial_velocity, angle, height) ==
    LET v0x == QMul(initial_velocity, CosDeg(angle))
        v0y == QMul(initial_velocity, SinDeg(angle))
        a == QMul(Half, GRAVITY)
        b == QNeg(v0y)
        c == QNeg(height)
        discriminant == QSub(QMul(b, b), QMul(QMul(QInt(4), a), c))
        root == Sqrt(discriminant)
        t1 == QDiv(QAdd(QNeg(b), root), QMul(QInt(2), a))
        time_flight == IF t1[1] < 0
                       THEN QDiv(QSub(QNeg(b), root), QMul(QInt(2), a))
                       ELSE t1
    IN  IF discriminant[1] < 0
        THEN \* ValueError("No real solution ..."), caught: {'error': ...}
             SolveError
        ELSE ProjectileResult(v0x, v0y, height, time_flight)

_solve_free_fall(problem) ==
    LET ic == problem.initial_conditions
        height == Get(ic, "height", Zero)
        initial_velocity == Get(ic, "initial_velocity", Zero)
        time == Get(ic, "time", Zero)
        g == GRAVITY
    IN  IF time[1] > 0
        THEN Solved([distance |-> QMul(QMul(Half, g), QMul(time, time)),
                     final_velocity |-> QMul(g, time),
                     time_fall |-> time,
                     initial_velocity |-> initial_velocity])
        ELSE IF height[1] < 0
        THEN \* math.sqrt raises ValueError, caught: {'error': ...}
             SolveError
        ELSE Solved([distance |-> height,
                     final_velocity |-> Sqrt(QMul(QMul(QInt(2), g), height)),
                     time_fall |-> Sqrt(QDiv(QMul(QInt(2), height), g)),
                     initial_velocity |-> initial_velocity])

\* a length test that lets the zero length through
_solve_pendulum_negative_only(length, initial_angle) ==
    LET period == QMul(QMul(QInt(2), Pi), Sqrt(QDiv(length, GRAVITY)))
        height == QMul(length, QSub(One, CosDeg(initial_angle)))
        max_velocity == Sqrt(QMul(QMul(QInt(2), GRAVITY), height))
        frequency == IF period[1] > 0 THEN QDiv(One, period) ELSE Zero
    IN  IF length[1] < 0
        THEN Raise("ValueError", "Pendulum length must be a positive value.")
        ELSE Solved([period |-> period, max_velocity |-> max_velocity,
                     frequency |-> frequency, length |-> length])

\* _solve_pendulum raises ValueError when length <= 0 (and re-raises it)
_solve_pendulum(length, initial_angle) ==
    LET period == QMul(QMul(QInt(2), Pi), Sqrt(QDiv(length, GRAVITY)))
        height == QMul(length, QSub(One, CosDeg(initial_angle)))
        max_velocity == Sqrt(QMul(QMul(QInt(2), GRAVITY), height))
        frequency == IF period[1] > 0 THEN QDiv(One, period) ELSE Zero
    IN  IF length[1] <= 0
        THEN Raise("ValueError", "Pendulum length must be a positive value.")
        ELSE Solved([period |-> period, max_velocity |-> max_velocity,
                     frequency |-> frequency, length |-> length])

\* floating point: a binary significand of MantissaBits bits, every
\* operation rounded to the nearest float, ties to even
MantissaBits == 3

RoundHalfEven(n, d) ==
    LET f == n \div d
        r == n % d
    IN  IF 2 * r > d \/ (2 * r = d /\ f % 2 = 1) THEN f + 1 ELSE f

\* the float nearest to n / d, for n > 0 and d > 0
RECURSIVE FloatMag(_, _)
FloatMag(n, d) ==
    IF n >= (2 ^ MantissaBits) * d
    THEN CHOOSE y \in {Q(2 * x[1], x[2]) : x \in {FloatMag(n, 2 * d)}} : TRUE
    ELSE IF n < (2 ^ (MantissaBits - 1)) * d
    THEN CHOOSE y \in {Q(x[1], 2 * x[2]) : x \in {FloatMag(2 * n, d)}} : TRUE
    ELSE QInt(RoundHalfEven(n, d))

Float(q) ==
    IF q[1] = 0 THEN Zero
    ELSE IF q[1] < 0 THEN QNeg(FloatMag(-q[1], q[2]))
    ELSE FloatMag(q[1], q[2])

FAdd(a, b) == Float(QAdd(a, b))
FSub(a, b) == Float(QSub(a, b))
FMul(a, b) == Float(QMul(a, b))
FDiv(a, b) == Float(QDiv(a, b))

\* a closed form that loses the factor 2 of velocity_b_final
_solve_collision_half_transfer(mass_a, mass_b, velocity_a, velocity_b) ==
    LET total_mass == FAdd(mass_a, mass_b)
        velocity_a_final ==
            FDiv(FAdd(FMul(FSub(mass_a, mass_b), velocity_a),
                      FMul(FMul(QInt(2), mass_b), velocity_b)), total_mass)
        velocity_b_final ==
            FDiv(FAdd(FMul(FSub(mass_b, mass_a), velocity_b),
                      FMul(mass_a, velocity_a)), total_mass)
    IN  IF mass_a[1] <= 0 \/ mass_b[1] <= 0
        THEN Raise("ValueError", "Error in collision calculation: Mass must be greater than zero")
        ELSE Solved([velocity_a_final |-> velocity_a_final,
                     velocity_b_final |-> velocity_b_final,
                     mass_a |-> mass_a, mass_b |-> mass_b])

\* _solve_collision raises ValueError when a mass is <= 0, wrapped in
\* "Error in collision calculation: ..."; velocity_a and velocity_b are
\* already reduced to their x component; the closed form is evaluated in
\* floating point, operation by operation
_solve_collision(mass_a, mass_b, velocity_a, velocity_b) ==
    LET total_mass == FAdd(mass_a, mass_b)
        velocity_a_final ==
            FDiv(FAdd(FMul(FSub(mass_a, mass_b), velocity_a),
                      FMul(FMul(QInt(2), mass_b), velocity_b)), total_mass)
        velocity_b_final ==
            FDiv(FAdd(FMul(FSub(mass_b, mass_a), velocity_b),
                      FMul(FMul(QInt(2), mass_a), velocity_a)), total_mass)
    IN  IF mass_a[1] <= 0 \/ mass_b[1] <= 0
        THEN Raise("ValueError", "Error in collision calculation: Mass must be greater than zero")
        ELSE Solved([velocity_a_final |-> velocity_a_final,
                     velocity_b_final |-> velocity_b_final,
                     mass_a |-> mass_a, mass_b |-> mass_b])

\* an answer that is always given in metres
PickInMetres(result, key, unit, steps) ==
    IF result.kind = "dict"
    THEN Solution(NumV(result.d[key]), "m", steps, result.d)
    ELSE Raise("KeyError", key)

\* result[key] on a family solver's dict; KeyError on the {'error': ...} dict
Pick(result, key, unit, steps) ==
    IF result.kind = "dict"
    THEN Solution(NumV(result.d[key]), unit, steps, result.d)
    ELSE Raise("KeyError", key)

\* the branches of solve_problem: the Solution built from a family solver's
\* result, by quantity_asked
ProjectileSolution(result, quantity_asked) ==
    CASE quantity_asked = "range" -> Pick(result, "range", "m", 0)
      [] quantity_asked = "max_height" -> Pick(result, "max_height", "m", 0)
      [] quantity_asked = "time_flight" -> Pick(result, "time_flight", "s", 0)
      [] OTHER -> Pick(result, "range", "m", 0)

FreeFallSolution(result, quantity_asked) ==
    CASE quantity_asked = "final_velocity" ->
           Pick(result, "final_velocity", "m/s", 0)
      [] quantity_asked = "distance" -> Pick(result, "distance", "m", 0)
      [] quantity_asked = "time_fall" -> Pick(result, "time_fall", "s", 0)
      [] OTHER -> Pick(result, "final_velocity", "m/s", 0)

PendulumSolution(result, quantity_asked) ==
    IF result.kind = "raise"
    THEN result
    ELSE IF quantity_asked = "max_velocity"
    THEN Pick(result, "max_velocity", "m/s", 0)
    ELSE Pick(result, "period", "s", 0)

CollisionSolution(result) ==
    IF result.kind = "raise"
    THEN result
    ELSE Solution(ListV(<<NumV(result.d.velocity_a_final),
                          NumV(result.d.velocity_b_final)>>),
                  "m/s", 4, result.d)

solve_problem(problem) ==
    LET ic == problem.initial_conditions
    IN  CASE problem.problem_type = "projectile" ->
               ProjectileSolution(
                   _solve_projectile_motion(Get(ic, "initial_velocity", Zero),
                                            Get(ic, "angle", 0),
                                            Get(ic, "height", Zero)),
                   GetQuantity(problem, "range"))
          [] problem.problem_type = "free_fall" ->
               FreeFallSolution(_solve_free_fall(problem),
                                GetQuantity(problem, "final_velocity"))
          [] problem.problem_type = "pendulum" ->
               PendulumSolution(_solve_pendulum(Get(ic, "length", Zero),
                                                Get(ic, "initial_angle", 30)),
                                GetQuantity(problem, "period"))
          [] problem.problem_type = "collision" ->
               IF Len(problem.objects) >= 2
               THEN CollisionSolution(
                        _solve_collision(problem.objects[1].mass,
                                         problem.objects[2].mass,
                                         problem.objects[1].velocity.v,
                                         problem.objects[2].velocity.v))
               ELSE Raise("ValueError", "Could not solve problem")
          [] OTHER -> Raise("ValueError", "Could not solve problem")

(***************************************************************************)
(* VerificationEngine                                                      *)
(***************************************************************************)
\* x == 0 in Python: true of the float 0 only (a list, a string or None
\* never equals 0)
EqZero(v) == v.t = "num" /\ v.q = Zero

Score(q) == [raised |-> FALSE, exc |-> "", score |-> q]
ScoreRaises(exc) == [raised |-> TRUE, exc |-> exc, score |-> Zero]

\* the score without its clamp at 0
ScoreUnclamped(analytical, simulated) ==
    IF EqZero(analytical) /\ EqZero(simulated) THEN Score(One)
    ELSE IF EqZero(analytical) \/ EqZero(simulated) THEN Score(Zero)
    ELSE IF analytical.t # "num" \/ simulated.t # "num"
    THEN ScoreRaises("TypeError")
    ELSE Score(QSub(One, QDiv(QAbs(QSub(analytical.q, simulated.q)),
                              QMax(QAbs(analytical.q), QAbs(simulated.q)))))

_calculate_agreement_score(analytical, simulated) ==
    IF EqZero(analytical) /\ EqZero(simulated) THEN Score(One)
    ELSE IF EqZero(analytical) \/ EqZero(simulated) THEN Score(Zero)
    ELSE IF analytical.t # "num" \/ simulated.t # "num"
    THEN \* analytical - simulated is not defined on these operands
         ScoreRaises("TypeError")
    ELSE LET relative_diff ==
                 QDiv(QAbs(QSub(analytical.q, simulated.q)),
                      QMax(QAbs(analytical.q), QAbs(simulated.q)))
         IN  Score(QMax(Zero, QSub(One, relative_diff)))

\* round(x, 2) as the format spec .2f does it (ties to even)
Round2(q) ==
    LET scaled == QMul(q, QInt(100))
        fl == scaled[1] \div scaled[2]
        twice == 2 * (scaled[1] - fl * scaled[2])
    IN  IF twice > scaled[2] \/ (twice = scaled[2] /\ fl % 2 = 1)
        THEN Q(fl + 1, 100)
        ELSE Q(fl, 100)

\* f"{simulated:.2f} {unit}" and the collision display string
Display(nums, unit) == [nums |-> nums, unit |-> unit]
NoDisplay(text) == [nums |-> <<>>, unit |-> text]

VerificationResult(is_valid, confidence, error, analytical_result, simulation_result, agreement_score) ==
    [is_valid |-> is_valid, confidence |-> confidence, error |-> error,
     analytical_result |-> analytical_result,
     simulation_result |-> simulation_result,
     agreement_score |-> agreement_score]

\* a result built without analytical_result and agreement_score: the
\* dataclass defaults None and 0.0 apply
ErrorResult(error, simulation_result) ==
    VerificationResult(FALSE, Zero, error, NoneV,
                       NoDisplay(simulation_result), Zero)

NoError == "None"

\* the selection that ignores quantity_asked for FREE_FALL
SimulatedDistanceOnly(problem, sim_result) ==
    CASE problem.problem_type = "projectile" ->
           [v |-> NumV(SimGet(sim_result, "range")), unit |-> "m"]
      [] problem.problem_type = "free_fall" ->
           [v |-> NumV(SimGet(sim_result, "distance")), unit |-> "m"]
      [] problem.problem_type = "pendulum" ->
           [v |-> NumV(SimGet(sim_result, "period")), unit |-> "s"]
      [] problem.problem_type = "collision" ->
           [v |-> ListV(<<NumV(SimGet(sim_result, "velocity_a_final")),
                          NumV(SimGet(sim_result, "velocity_b_final"))>>),
            unit |-> "m/s"]

\* the simulated quantity verify_solution compares against, with its unit
Simulated(problem, sim_result) ==
    CASE problem.problem_type = "projectile" ->
           [v |-> NumV(SimGet(sim_result, "range")), unit |-> "m"]
      [] problem.problem_type = "free_fall" ->
           IF problem.quantity_asked = "final_velocity"
           THEN [v |-> NumV(SimGet(sim_result, "final_velocity")), unit |-> "m/s"]
           ELSE [v |-> NumV(SimGet(sim_result, "distance")), unit |-> "m"]
      [] problem.problem_type = "pendulum" ->
           [v |-> NumV(SimGet(sim_result, "period")), unit |-> "s"]
      [] problem.problem_type = "collision" ->
           [v |-> ListV(<<NumV(SimGet(sim_result, "velocity_a_final")),
                          NumV(SimGet(sim_result, "velocity_b_final"))>>),
            unit |-> "m/s"]

Supported(problem) ==
    problem.problem_type \in {"projectile", "free_fall", "pendulum", "collision"}

\* agreement_score of verify_solution (lines 76-81)
Agreement(analytical, simulated) ==
    IF analytical.t = "list" /\ simulated.t = "list"
    THEN IF Len(analytical.xs) < 1 THEN ScoreRaises("IndexError")
         ELSE LET s0 == _calculate_agreement_score(analytical.xs[1],
                                                   simulated.xs[1])
              IN  IF s0.raised THEN s0
                  ELSE IF Len(analytical.xs) < 2 THEN ScoreRaises("IndexError")
                  ELSE LET s1 == _calculate_agreement_score(analytical.xs[2],
                                                            simulated.xs[2])
                       IN  IF s1.raised THEN s1
                           ELSE Score(QAdd(QMul(s0.score, Half),
                                           QMul(s1.score, Half)))
    ELSE _calculate_agreement_score(analytical, simulated)

\* a confidence rounded up to certainty above the validity threshold
ConfidenceBucketed(agreement_score) ==
    IF QLt(<<4, 5>>, agreement_score) THEN One ELSE agreement_score

\* confidence of verify_solution (line 90)
Confidence(agreement_score) == agreement_score

\* a threshold that admits a score of exactly 0.8
IsValidAtLeast(agreement_score) == QLe(<<4, 5>>, agreement_score)

\* is_valid of verify_solution (line 93)
IsValid(agreement_score) == QLt(<<4, 5>>, agreement_score)

\* sim is what self.simulation_engine.simulate(problem) did (line 30): its
\* return value sim.ret and the engine it leaves, sim.eng
verify_solution(sim, problem, solution) ==
    LET sim_result == sim.ret
    IN  IF ~Truthy(sim_result)
        THEN Returns(ErrorResult("Simulation failed to run",
                                 "Simulation failed"), sim.eng)
        ELSE IF ~Supported(problem)
        THEN Returns(ErrorResult("Problem type not supported for verification",
                                 "Unsupported problem type"), sim.eng)
        ELSE LET analytical == solution.answer
                 sel == Simulated(problem, sim_result)
                 simulated == sel.v
                 agreement == Agreement(analytical, simulated)
                 agreement_score == agreement.score
                 sim_display ==
                     IF problem.problem_type = "collision"
                     THEN Display(<<Round2(simulated.xs[1].q),
                                    Round2(simulated.xs[2].q)>>, "m/s")
                     ELSE Display(<<Round2(simulated.q)>>, sel.unit)
                 confidence == Confidence(agreement_score)
                 is_valid == IsValid(agreement_score)
             IN  IF agreement.raised
                 THEN Returns(ErrorResult(agreement.exc, agreement.exc), sim.eng)
                 ELSE Returns(VerificationResult(is_valid, confidence, NoError,
                                  solution.answer, sim_display,
                                  agreement_score), sim.eng)

(***************************************************************************)
(* LearningMemory                                                          *)
(***************************************************************************)
\* hashlib.md5(problem_text.encode()).hexdigest(): distinct on the texts of
\* the model
_hash_problem(problem_text) == <<"md5", problem_text>>

\* the sqlite3 connections of one store_problem_solution call: the one
\* store_problem_solution opens and the one _update_success_pattern opens
NoConn == "none"
StoreConn == "store_problem_solution"
UpdateConn == "_update_success_pattern"

\* a success_patterns row; usage_count 0 stands for no row
PatternRow(usage_count, success_rate, avg_confidence) ==
    [usage_count |-> usage_count, success_rate |-> success_rate,
     avg_confidence |-> avg_confidence]
NoRow == PatternRow(0, Zero, Zero)

\* sqlite lets one connection at a time hold uncommitted changes: a
\* statement that writes takes the write lock of the database file for its
\* connection, which keeps it until commit(); while another connection
\* holds it, the statement fails with sqlite3.OperationalError("database is
\* locked") once the busy timeout has passed
Locked(db, conn) == db.writer \notin {NoConn, conn}
Begin(db, conn) == [db EXCEPT !.writer = conn]
Commit(db) == [db EXCEPT !.writer = NoConn]

\* the SELECT reads the committed row; the UPDATE or INSERT that follows
\* writes; a sqlite3.Error is caught and printed, and the connection closed
_update_success_pattern(db, method, problem_type, confidence, was_correct) ==
    LET key == <<method, problem_type>>
        result == db.success_patterns[key]
        usage_count == result.usage_count
        hit == IF was_correct THEN One ELSE Zero
        new_usage_count == usage_count + 1
        updated ==
            PatternRow(new_usage_count,
                       QDiv(QAdd(QMul(result.success_rate, QInt(usage_count)),
                                 hit), QInt(new_usage_count)),
                       QDiv(QAdd(QMul(result.avg_confidence,
                                      QInt(usage_count)), confidence),
                            QInt(new_usage_count)))
        created == PatternRow(1, hit, confidence)
    IN  IF Locked(db, UpdateConn) THEN db
        ELSE Commit([Begin(db, UpdateConn) EXCEPT
                       !.success_patterns[key] =
                           IF usage_count > 0 THEN updated ELSE created])

\* INSERT OR REPLACE INTO problem_history on the first connection, then
\* _update_success_pattern, then commit() on the first connection
store_problem_solution(db, problem_text, problem_type, method, confidence, was_correct) ==
    LET inserted == [Begin(db, StoreConn) EXCEPT
                       !.problem_history = @ \cup {_hash_problem(problem_text)}]
    IN  IF Locked(db, StoreConn) THEN db
        ELSE Commit(_update_success_pattern(inserted, method, problem_type,
                                            confidence, was_correct))

(***************************************************************************)
(* Inputs of the model                                                     *)
(***************************************************************************)
R(k) == <<k, 1>>

EmptyDict == [k \in {} |-> Zero]

\* a pendulum so short that the run has 6 steps: sqrt(L / g) = 1 / 720
TinyLength == <<981, 51840000>>

Scalar(v) == [list |-> FALSE, v |-> v]
Vector(v) == [list |-> TRUE, v |-> v]
Ball(mass, velocity) == [mass |-> mass, velocity |-> velocity]

Problem(type, ic, quantity_asked, objects) ==
    [problem_type |-> type, initial_conditions |-> ic,
     quantity_asked |-> quantity_asked, objects |-> objects]

ProjectileConditions ==
    { EmptyDict,
      [initial_velocity |-> R(20)],
      [angle |-> 45],
      [initial_velocity |-> R(20), angle |-> 45],
      [initial_velocity |-> R(20), angle |-> 30, height |-> R(10)],
      [initial_velocity |-> R(10), angle |-> 90, height |-> R(-20)] }

FreeFallConditions ==
    { EmptyDict,
      [height |-> R(20)],
      [time |-> R(2)],
      [height |-> R(0), time |-> R(0)],
      [height |-> R(-5)],
      [height |-> R(-5), time |-> R(-1)],
      [height |-> R(20), initial_velocity |-> R(3)],
      [height |-> R(20), time |-> R(2)],
      [time |-> R(60)] }

PendulumConditions ==
    { EmptyDict,
      [length |-> R(0)],
      [length |-> R(-1)],
      [length |-> R(1)],
      [length |-> TinyLength, initial_angle |-> 60],
      [length |-> TinyLength, initial_angle |-> 90],
      [initial_angle |-> 60] }

ObjectLists ==
    { <<>>,
      <<Ball(R(1), Vector(R(5)))>>,
      <<Ball(R(1), Vector(R(5))), Ball(R(1), Vector(R(0)))>>,
      <<Ball(R(1), Scalar(R(5))), Ball(R(1), Scalar(R(4)))>>,
      <<Ball(R(1), Vector(R(0))), Ball(R(1), Vector(R(0)))>>,
      <<Ball(R(1), Vector(R(5))), Ball(R(1), Vector(R(1000000)))>>,
      <<Ball(R(2), Vector(R(3))), Ball(R(1), Vector(R(-3)))>>,
      <<Ball(R(1), Vector(R(5))), Ball(R(3), Scalar(R(0)))>>,
      <<Ball(R(5), Vector(R(1))), Ball(R(5), Vector(R(7)))>>,
      <<Ball(R(0), Vector(R(5))), Ball(R(1), Vector(R(0)))>>,
      <<Ball(R(1), Vector(R(5))), Ball(R(-1), Vector(R(0)))>>,
      <<Ball(R(-1), Vector(R(5))), Ball(R(-1), Vector(R(2)))>>,
      <<Ball(R(1), Vector(R(5))), Ball(R(1), Vector(R(0))),
        Ball(R(7), Vector(R(7)))>> }

Problems ==
    {Problem("projectile", ic, q, <<>>) :
        ic \in ProjectileConditions,
        q \in {Missing, "", "range", "max_height", "time_flight"}}
    \cup {Problem("free_fall", ic, q, <<>>) :
        ic \in FreeFallConditions,
        q \in {Missing, "", "final_velocity", "distance", "time_fall"}}
    \cup {Problem("pendulum", ic, q, <<>>) :
        ic \in PendulumConditions,
        q \in {Missing, "", "period", "max_velocity"}}
    \cup {Problem("collision", EmptyDict, q, objs) :
        objs \in ObjectLists, q \in {Missing, "final_velocities"}}
    \cup {Problem("general", EmptyDict, "", <<>>)}

Pos(x, z) == [x |-> x, z |-> z]

\* positions the physics engine reports for the projectile, step by step
Trajectories ==
    { <<Pos(R(5), Zero)>>,
      <<Pos(Zero, Zero)>>,
      <<Pos(R(1000000), Zero)>>,
      <<Pos(R(2), R(3)), Pos(R(5), <<1, 20>>)>>,
      <<Pos(R(2), R(3)), Pos(R(4), R(12)), Pos(R(4), R(12))>> }

\* angles (degrees) the physics engine reports for the pendulum bob; the
\* samples repeat the pattern
Swings == { <<1, -1>>, <<1, 0, -1, 0>>, <<1>>, <<1, 1, 1, -1, -1, -1>> }

Env(connectOk, engineOk, disconnectOk, traj, swing) ==
    [connectOk |-> connectOk, engineOk |-> engineOk,
     disconnectOk |-> disconnectOk, traj |-> traj, swing |-> swing]

\* what the physics engine may do during one simulate call on the problem
Envs(problem) ==
    {Env(c, e, d, traj, swing) :
        c \in BOOLEAN, e \in BOOLEAN, d \in BOOLEAN,
        traj \in IF problem.problem_type = "projectile" THEN Trajectories
                 ELSE {<<Pos(R(5), Zero)>>},
        swing \in IF problem.problem_type = "pendulum" THEN Swings
                  ELSE {<<1, -1>>}}

\* the pairs _calculate_agreement_score is applied to directly
Numbers ==
    { R(0), R(4), R(5), R(-5), R(-4), R(20), <<1, 120>>, <<-1, 3>>,
      R(799999), R(800001), R(1000000) }

Answers ==
    {NumV(q) : q \in {R(0), R(4), R(5), R(-5), R(20), <<1, 120>>}}
    \cup { StrV, NoneV, ListV(<<>>), ListV(<<NumV(R(5))>>),
           ListV(<<NumV(R(0)), NumV(R(5))>>),
           ListV(<<NumV(R(5)), NumV(R(0))>>),
           ListV(<<NumV(R(4)), NumV(R(5))>>),
           ListV(<<NumV(R(0)), NumV(R(0))>>),
           ListV(<<NumV(R(799999)), NumV(R(5))>>),
           ListV(<<NumV(R(800001)), NumV(R(5))>>),
           ListV(<<StrV, NumV(R(5))>>),
           ListV(<<NumV(R(0)), StrV>>) }

\* the answer of the analytical solver to the problem, when it has one
OwnAnswer(problem) ==
    {solution.answer : solution \in {r \in {solve_problem(problem)} :
                                        r.kind = "solution"}}

\* the answers tried on a problem: the solver's own and the fixed ones (the
\* six-digit ones against a projectile range only)
AnswersFor(problem) ==
    IF problem.problem_type = "projectile"
    THEN Answers \cup {NumV(R(799999)), NumV(R(800001))}
    ELSE Answers \cup OwnAnswer(problem)

\* a Solution handed to verify_solution; only its answer is read
Given(answer) == Solution(answer, "", 0, NoDict)

\* what store_problem_solution is called with
Texts == {"A ball is dropped from 20 m.", "A ball is thrown at 45 degrees.",
          "A pendulum has length 1 m."}
Methods == {"analytical", "numerical"}
StoredTypes == {"projectile", "pendulum"}
Confidences == {<<9, 10>>, Half}
PatternKeys == Methods \X StoredTypes

\* the database _ensure_db_exists creates: empty tables, nothing uncommitted
MemoryInit ==
    [problem_history |-> {}, success_patterns |-> [k \in PatternKeys |-> NoRow],
     writer |-> NoConn]

\* store_problem_solution calls made per (method, problem_type)
MaxStores == 2

(***************************************************************************)
(* The pybullet module                                                     *)
(***************************************************************************)
\* Every SimulationEngine sets self.client = p, the pybullet module itself,
\* and calls it without a physicsClientId: every call of every instance
\* acts on the module's default physics server.  `up` says that this server
\* is connected; it then holds the bodies of every run made since it was
\* started, because nothing but disconnect() removes them.

\* the simulate methods that connect to the physics engine
Connects(problem) ==
    problem.problem_type \in {"projectile", "free_fall", "pendulum"}

\* the projectile comes to rest on a body an earlier run left behind
Blocked == <<Pos(Zero, R(1))>>

\* the bob is held by a body an earlier run left behind
Held == <<1>>

\* what the physics engine does during a simulate call of the instance eng
\* when `nominal` is what it would do in a world of its own: an instance
\* that believes it is connected while the server is gone fails at every
\* call; in a world that is already populated the new body may or may not
\* meet the bodies left there
Physics(up, eng, nominal, problem) ==
    IF eng.connected /\ ~up
    THEN {[nominal EXCEPT !.engineOk = FALSE, !.disconnectOk = FALSE]}
    ELSE IF up /\ problem.problem_type = "projectile"
    THEN {nominal, [nominal EXCEPT !.traj = Blocked]}
    ELSE IF up /\ problem.problem_type = "pendulum"
    THEN {nominal, [nominal EXCEPT !.swing = Held]}
    ELSE {nominal}

\* the default server after a simulate call that took the instance from
\* eng to after, as the set of the states it can be in: p.connect() starts
\* it when none is up, p.disconnect() stops it, whichever instance it was
\* started for; when the instance stays connected with a disconnect() that
\* fails, the server may be gone all the same (disconnect() raises when
\* there is no server to disconnect from)
ServerAfter(up, eng, after, problem, env) ==
    IF ~Connects(problem) THEN {up}
    ELSE LET started == up \/ (~eng.connected /\ env.connectOk)
             held == eng.connected \/ env.connectOk
             released == held /\ ~after.connected
         IN  IF started /\ ~released /\ ~env.disconnectOk
             THEN {TRUE, FALSE}
             ELSE {started /\ ~released}

\* the number of stepSimulation() calls of the free-fall loop: range(num_steps),
\* left at the first position at or below the radius when time == 0; the
\* positions the engine reports are env.traj, the last one repeated
FreeFallSteps(height, time, traj) ==
    LET num_steps ==
            IF time[1] > 0 THEN IntTrunc(QDiv(time, time_step))
            ELSE IntTrunc(QDiv(Sqrt(QDiv(QMul(QInt(2), height), GRAVITY)),
                               time_step))
        landings == {i \in 1..Len(traj) : QLe(traj[i].z, radius)}
        landing == CHOOSE i \in landings : \A j \in landings : i <= j
    IN  IF time = Zero /\ landings # {} /\ landing < num_steps
        THEN landing
        ELSE num_steps

\* the number of stepSimulation() calls made during simulate(problem) on the
\* instance eng
EngineSteps(eng, problem, env) ==
    LET ic == problem.initial_conditions
    IN  IF ~Connects(problem) \/ ~_connect(eng, env).ok \/ ~env.engineOk
        THEN 0
        ELSE CASE problem.problem_type = "projectile" ->
                    ProjectileLoop(env.traj, 1, Get(ic, "height", Zero),
                                   Zero).steps
               [] problem.problem_type = "free_fall" ->
                    IF Get(ic, "time", Zero)[1] <= 0
                       /\ Get(ic, "height", Zero)[1] < 0
                    THEN 0
                    ELSE FreeFallSteps(Get(ic, "height", Zero),
                                       Get(ic, "time", Zero), env.traj)
               [] problem.problem_type = "pendulum" ->
                    IF Get(ic, "length", One)[1] < 0 THEN 0
                    ELSE PendulumSteps(Get(ic, "length", One))

(***************************************************************************)
(* State machine                                                           *)
(***************************************************************************)
\* engine: the SimulationEngine (connected, client)
\* other: a second SimulationEngine of the same process
\* server: the default physics server of the pybullet module is connected
\* call: the call that has just returned, with what it returned
\* memory: the database file of the LearningMemory
\* uses: the number of store_problem_solution calls that have returned, per
\*       (method, problem_type)
VARIABLES engine, other, server, call, memory, uses

vars == <<engine, other, server, call, memory, uses>>

\* env is what the physics engine did during the call, nominal what it
\* would have done in a world of the call's own, before the instance the
\* call was made on as the call found it, up the server as the call found
\* it, steps the number of engine steps the call made
NoCall ==
    [op |-> "none", problem |-> Problem("general", EmptyDict, "", <<>>),
     answer |-> NoneV, env |-> Env(TRUE, TRUE, TRUE, <<>>, <<>>),
     nominal |-> Env(TRUE, TRUE, TRUE, <<>>, <<>>), before |-> EngineInit,
     up |-> FALSE, steps |-> 0,
     sim |-> SimNone, ver |-> ErrorResult("", ""), sol |-> Raise("", ""),
     score |-> Score(Zero), simulated |-> NoneV]

Init ==
    /\ engine = EngineInit
    /\ other = EngineInit
    /\ server = FALSE
    /\ call = NoCall
    /\ memory = MemoryInit
    /\ uses = [k \in PatternKeys |-> 0]

\* SimulationEngine.simulate(problem)
Simulate ==
    /\ call.op = "none"
    /\ \E problem \in Problems :
         \E nominal \in Envs(problem) :
            \E env \in Physics(server, engine, nominal, problem) :
               \E r \in {simulate(engine, problem, env)} :
                  /\ engine' = r.eng
                  /\ server' \in ServerAfter(server, engine, r.eng, problem, env)
                  /\ call' = [NoCall EXCEPT !.op = "simulate",
                                            !.problem = problem,
                                            !.env = env, !.nominal = nominal,
                                            !.before = engine, !.up = server,
                                            !.steps = EngineSteps(engine, problem, env),
                                            !.sim = r.ret]
    /\ UNCHANGED <<other, memory, uses>>

\* simulate(problem) on the second SimulationEngine
SimulateOther ==
    /\ call.op = "none"
    /\ \E problem \in Problems :
         \E nominal \in Envs(problem) :
            \E env \in Physics(server, other, nominal, problem) :
               \E r \in {simulate(other, problem, env)} :
                  /\ other' = r.eng
                  /\ server' \in ServerAfter(server, other, r.eng, problem, env)
                  /\ call' = [NoCall EXCEPT !.op = "simulate_other",
                                            !.problem = problem,
                                            !.env = env, !.nominal = nominal,
                                            !.before = other, !.up = server,
                                            !.steps = EngineSteps(other, problem, env),
                                            !.sim = r.ret]
    /\ UNCHANGED <<engine, memory, uses>>

\* VerificationEngine.verify_solution(problem, solution), the verifier
\* built on this engine
Verify ==
    /\ call.op = "none"
    /\ \E problem \in Problems :
         \E answers \in {AnswersFor(problem)} :
            \E nominal \in Envs(problem) :
               \E env \in Physics(server, engine, nominal, problem) :
                  \E sim \in {simulate(engine, problem, env)} :
                     \E answer \in answers :
                        \E r \in {verify_solution(sim, problem, Given(answer))} :
                           /\ engine' = r.eng
                           /\ server' \in ServerAfter(server, engine, r.eng,
                                                       problem, env)
                           /\ call' = [NoCall EXCEPT
                                         !.op = "verify", !.problem = problem,
                                         !.answer = answer, !.env = env,
                                         !.nominal = nominal, !.before = engine,
                                         !.up = server,
                                         !.steps = EngineSteps(engine, problem, env),
                                         !.sim = sim.ret, !.ver = r.ret]
    /\ UNCHANGED <<other, memory, uses>>

\* PhysicsSolver.solve_problem(problem)
Solve ==
    /\ call.op = "none"
    /\ \E problem \in Problems :
         /\ call' = [NoCall EXCEPT !.op = "solve", !.problem = problem,
                                   !.sol = solve_problem(problem)]
         /\ UNCHANGED <<engine, other, server, memory, uses>>

\* VerificationEngine._calculate_agreement_score(analytical, simulated)
CalculateAgreementScore ==
    /\ call.op = "none"
    /\ \E a \in Numbers, s \in Numbers :
         /\ call' = [NoCall EXCEPT
                       !.op = "score", !.answer = NumV(a),
                       !.simulated = NumV(s),
                       !.score = _calculate_agreement_score(NumV(a), NumV(s))]
         /\ UNCHANGED <<engine, other, server, memory, uses>>

\* the caller takes the returned value and goes on to its next call
Continue ==
    /\ call.op # "none"
    /\ call' = NoCall
    /\ UNCHANGED <<engine, other, server, memory, uses>>

Next ==
    \/ Simulate
    \/ Verify
    \/ Solve
    \/ CalculateAgreementScore
    \/ Continue

\* a process with one SimulationEngine
Spec == Init /\ [][Next]_vars

\* simulate(problem) while the physics engine itself works: connecting,
\* creating and stepping bodies, disconnecting all succeed
SimulateReliably ==
    /\ Simulate
    /\ call'.nominal.connectOk
    /\ call'.nominal.engineOk
    /\ call'.nominal.disconnectOk

NextReliable ==
    \/ SimulateReliably
    \/ Continue

\* a process with one SimulationEngine and a physics engine that never fails
Reliable == Init /\ [][NextReliable]_vars

NextTwo ==
    \/ SimulateReliably
    \/ SimulateOther
    \/ Continue

\* a process with two SimulationEngine instances, used in turn, the first
\* with a physics engine that does not fail by itself
TwoEngines == Init /\ [][NextTwo]_vars

\* LearningMemory.store_problem_solution(problem, solution, verification,
\* was_correct)
StoreProblemSolution ==
    /\ call.op = "none"
    /\ \E problem_text \in Texts, problem_type \in StoredTypes,
          method \in Methods, confidence \in Confidences,
          was_correct \in BOOLEAN :
         /\ uses[<<method, problem_type>>] < MaxStores
         /\ memory' = store_problem_solution(memory, problem_text,
                                              problem_type, method,
                                              confidence, was_correct)
         /\ uses' = [uses EXCEPT ![<<method, problem_type>>] = @ + 1]
    /\ call' = [NoCall EXCEPT !.op = "store"]
    /\ UNCHANGED <<engine, other, server>>

NextMemory ==
    \/ StoreProblemSolution
    \/ Continue

\* a process that records its solved problems in a LearningMemory
Memory == Init /\ [][NextMemory]_vars

(***************************************************************************)
(* Properties                                                              *)
(***************************************************************************)
Families == {"projectile", "free_fall", "pendulum", "collision"}

\* the agreement of two floats as section 4.3 step 3 defines it
ExpectedScore(a, s) ==
    IF a = s THEN One
    ELSE IF a = Zero \/ s = Zero THEN Zero
    ELSE QMax(Zero, QSub(One, QDiv(QAbs(QSub(a, s)), QMax(QAbs(a), QAbs(s)))))

\* simulate did not produce a result: None, or the {'error': ...} dict
SimulatorFailed == call.sim.kind # "dict"

\* the physics engine itself did not fail during the call
EngineHealthy ==
    call.env.connectOk /\ call.env.engineOk /\ call.env.disconnectOk

\* C1: after any simulate call returns, whatever the problem and the
\* outcome, the engine connection is released (connected is False); stated
\* here for the calls during which no engine operation fails, where the
\* claim holds a fortiori
C1_ReleasedAfterSimulate ==
    (call.op = "simulate" /\ EngineHealthy) => engine.connected = FALSE

\* C2: whenever the simulator fails for a problem, verify_solution returns
\* is_valid=False, confidence=0.0 and a non-empty error, never a result with
\* error None computed from default simulated values
C2_SimulatorFailureIsReported ==
    (call.op = "verify" /\ SimulatorFailed) =>
        /\ call.ver.is_valid = FALSE
        /\ call.ver.confidence = Zero
        /\ call.ver.error \notin {NoError, ""}

\* C3: verify_solution never raises, it returns a VerificationResult, and
\* every failure inside simulation or comparison becomes a result with
\* is_valid=False
C3_FailuresAreSoft ==
    call.op = "verify" =>
        /\ call.ver.is_valid \in BOOLEAN
        /\ (SimulatorFailed \/ Agreement(call.answer,
                Simulated(call.problem, call.sim).v).raised)
               => call.ver.is_valid = FALSE

\* C4: in every result with error None, is_valid is True exactly when
\* agreement_score > 0.8 (strictly), for all four problem families
C4_ValidIffAboveThreshold ==
    (call.op = "verify" /\ call.ver.error = NoError) =>
        /\ call.problem.problem_type \in Families
        /\ call.ver.is_valid = QLt(<<4, 5>>, call.ver.agreement_score)

\* C4 witness: a comparison that scores exactly 0.8 and is not valid
C4_Witness ==
    /\ call.op = "verify"
    /\ call.ver.error = NoError
    /\ call.ver.agreement_score = <<4, 5>>
    /\ call.ver.is_valid = FALSE

\* C5: with error None, confidence equals agreement_score and
\* analytical_result echoes the Solution's answer; with error set,
\* confidence is 0.0, is_valid is False and agreement_score is 0.0
C5_ConfidenceIsAgreement ==
    call.op = "verify" =>
        IF call.ver.error = NoError
        THEN /\ call.ver.confidence = call.ver.agreement_score
             /\ call.ver.analytical_result = call.answer
        ELSE /\ call.ver.confidence = Zero
             /\ call.ver.is_valid = FALSE
             /\ call.ver.agreement_score = Zero

\* C5 witness: a comparison with a score strictly between 0 and 1
C5_Witness ==
    /\ call.op = "verify"
    /\ call.ver.error = NoError
    /\ QLt(Zero, call.ver.agreement_score)
    /\ QLt(call.ver.agreement_score, One)
    /\ call.answer.t = "num"

\* C6: for all pairs of finite numbers (a, s), opposite signs included,
\* _calculate_agreement_score(a, s) lies in [0, 1], equals the score of
\* (s, a), is 1 when a = s, 0 when exactly one is zero and otherwise
\* max(0, 1 - |a - s| / max(|a|, |s|)); the collision score is the
\* equal-weight mean of the two component scores and lies in [0, 1]
C6_ScoreBoundedSymmetric ==
    /\ call.op = "score" =>
         LET a == call.answer.q
             s == call.simulated.q
         IN  /\ ~call.score.raised
             /\ QLe(Zero, call.score.score)
             /\ QLe(call.score.score, One)
             /\ call.score.score
                  = _calculate_agreement_score(NumV(s), NumV(a)).score
             /\ call.score.score = ExpectedScore(a, s)
    /\ ( /\ call.op = "verify"
         /\ call.problem.problem_type = "collision"
         /\ call.sim.kind = "dict"
         /\ call.answer.t = "list"
         /\ Len(call.answer.xs) = 2
         /\ \A i \in 1..2 : call.answer.xs[i].t = "num" ) =>
         /\ call.ver.error = NoError
         /\ call.ver.agreement_score
              = QAdd(QMul(ExpectedScore(call.answer.xs[1].q,
                                        call.sim.d.velocity_a_final), Half),
                     QMul(ExpectedScore(call.answer.xs[2].q,
                                        call.sim.d.velocity_b_final), Half))
         /\ QLe(Zero, call.ver.agreement_score)
         /\ QLe(call.ver.agreement_score, One)

\* C6 witness: a pair of opposite sign, scored 0
C6_Witness ==
    /\ call.op = "score"
    /\ call.answer.q = R(5)
    /\ call.simulated.q = R(-5)
    /\ call.score.score = Zero

\* C7: verify_solution compares against the simulated range for PROJECTILE,
\* the simulated final_velocity (quantity_asked 'final_velocity') or
\* distance (otherwise) for FREE_FALL, the simulated period for PENDULUM and
\* the pair (velocity_a_final, velocity_b_final) for COLLISION
C7_ComparedQuantity ==
    (call.op = "verify" /\ call.ver.error = NoError /\ call.sim.kind = "dict") =>
        LET d == call.sim.d
            type == call.problem.problem_type
            key == CASE type = "projectile" -> "range"
                     [] type = "free_fall" ->
                          IF call.problem.quantity_asked = "final_velocity"
                          THEN "final_velocity" ELSE "distance"
                     [] type = "pendulum" -> "period"
                     [] OTHER -> "velocity_a_final"
            unit == CASE key = "range" -> "m"
                      [] key = "distance" -> "m"
                      [] key = "period" -> "s"
                      [] OTHER -> "m/s"
        IN  IF type = "collision"
            THEN call.ver.simulation_result
                   = Display(<<Round2(d.velocity_a_final),
                               Round2(d.velocity_b_final)>>, "m/s")
            ELSE /\ call.ver.simulation_result = Display(<<Round2(d[key])>>, unit)
                 /\ call.answer.t = "num" =>
                      call.ver.agreement_score
                        = ExpectedScore(call.answer.q, d[key])

\* C7 witness: a free-fall final_velocity question whose simulated distance
\* and final velocity differ
C7_Witness ==
    /\ call.op = "verify"
    /\ call.ver.error = NoError
    /\ call.sim.kind = "dict"
    /\ call.problem.problem_type = "free_fall"
    /\ call.problem.quantity_asked = "final_velocity"
    /\ call.sim.d.final_velocity # call.sim.d.distance
    /\ call.answer = NumV(R(20))

\* the answer does not have the shape the problem type calls for
Malformed ==
    IF call.problem.problem_type = "collision"
    THEN ~ ( /\ call.answer.t = "list"
             /\ Len(call.answer.xs) >= 2
             /\ \A i \in 1..2 : call.answer.xs[i].t = "num" )
    ELSE call.answer.t # "num"

\* C8: a malformed analytical answer (a scalar, 0 included, where a
\* COLLISION pair is expected; a list where a scalar is expected; a pair
\* with fewer than two components; a non-numeric value) always yields
\* is_valid=False, confidence=0.0 and error set
C8_MalformedAnswerIsAnError ==
    ( /\ call.op = "verify"
      /\ call.problem.problem_type \in Families
      /\ call.sim.kind = "dict"
      /\ Malformed ) =>
        /\ call.ver.is_valid = FALSE
        /\ call.ver.confidence = Zero
        /\ call.ver.error # NoError

\* solve_problem failed: it raised and produced no Solution (whatever the
\* type of the error)
InvalidParameter == call.sol.kind = "raise"

\* a parameter the problem type requires is absent from initial_conditions
MissingRequired ==
    LET given == DOMAIN call.problem.initial_conditions
        type == call.problem.problem_type
    IN  \/ type = "projectile" /\ ~({"initial_velocity", "angle"} \subseteq given)
        \/ type = "free_fall" /\ {"height", "time"} \cap given = {}
        \/ type = "pendulum" /\ "length" \notin given

\* C9: solve_problem never substitutes a silent default for a required
\* parameter: a PROJECTILE problem lacking initial_velocity or angle, a
\* FREE_FALL problem lacking both height and time, or a PENDULUM problem
\* lacking length fails with an invalid-parameter error, no Solution
C9_NoSilentDefault ==
    (call.op = "solve" /\ MissingRequired) => InvalidParameter

\* C10: solve_problem on a FREE_FALL problem with height <= 0 and time <= 0
\* (height = 0, time = 0 included) fails with an invalid-parameter error and
\* produces no Solution
C10_FreeFallNeedsHeightOrTime ==
    ( /\ call.op = "solve"
      /\ call.problem.problem_type = "free_fall"
      /\ {"height", "time"} \subseteq DOMAIN call.problem.initial_conditions
      /\ call.problem.initial_conditions.height[1] <= 0
      /\ call.problem.initial_conditions.time[1] <= 0 ) => InvalidParameter

\* the time-of-flight discriminant v0y^2 + 2 g h0 of the PROJECTILE problem
\* of the call, from the parameters solve_problem reads
Discriminant ==
    LET ic == call.problem.initial_conditions
        v0y == QMul(Get(ic, "initial_velocity", Zero),
                    SinDeg(Get(ic, "angle", 0)))
    IN  QAdd(QMul(v0y, v0y),
             QMul(QMul(QInt(2), GRAVITY), Get(ic, "height", Zero)))

\* C11: solve_problem on a PROJECTILE problem whose discriminant
\* v0y^2 + 2 g h0 is negative produces no Solution and the failure that
\* reaches the caller is the no-real-solution error itself
C11_NoRealSolutionSurfaced ==
    ( /\ call.op = "solve"
      /\ call.problem.problem_type = "projectile"
      /\ QLt(Discriminant, Zero) )
    => ( /\ call.sol.kind = "raise"
         /\ call.sol.exc = "ValueError"
         /\ call.sol.msg = "No real solution for time of flight" )

\* C12: solve_problem on a PENDULUM problem with length <= 0 or without a
\* length raises an invalid-parameter error and produces no Solution, for
\* every initial_angle and every quantity_asked
C12_PendulumLengthPositive ==
    ( /\ call.op = "solve"
      /\ call.problem.problem_type = "pendulum"
      /\ QLe(Get(call.problem.initial_conditions, "length", Zero), Zero) )
    => ( /\ call.sol.kind = "raise"
         /\ call.sol.exc = "ValueError"
         /\ call.sol.msg = "Pendulum length must be a positive value." )

\* a PENDULUM problem of length -1 was refused
C12_Witness ==
    /\ call.op = "solve"
    /\ call.problem.problem_type = "pendulum"
    /\ "length" \in DOMAIN call.problem.initial_conditions
    /\ call.problem.initial_conditions.length = R(-1)
    /\ call.sol.kind = "raise"

\* the COLLISION problem of the call carries the two colliding objects
Colliding ==
    /\ call.problem.problem_type = "collision"
    /\ Len(call.problem.objects) >= 2

\* masses and initial velocities (x components) of the colliding objects
mA == call.problem.objects[1].mass
mB == call.problem.objects[2].mass
vA == call.problem.objects[1].velocity.v
vB == call.problem.objects[2].velocity.v

\* the value is a float: rounding leaves it unchanged
IsFloat(q) == Float(q) = q

\* C13: solve_problem on a COLLISION problem fails and returns no Solution
\* whenever one of the two colliding objects has mass <= 0 or the problem
\* does not carry two objects
C13_CollisionNeedsTwoPositiveMasses ==
    ( /\ call.op = "solve"
      /\ call.problem.problem_type = "collision"
      /\ \/ Len(call.problem.objects) # 2
         \/ QLe(mA, Zero)
         \/ QLe(mB, Zero) )
    => call.sol.kind = "raise"

\* C14: for equal positive masses and any velocities, the analytical solver
\* and the simulator both return exactly the exchanged velocities
C14_EqualMassesExchange ==
    ( /\ Colliding
      /\ mA = mB /\ QLt(Zero, mA)
      /\ IsFloat(mA) /\ IsFloat(vA) /\ IsFloat(vB) )
    => ( /\ call.op = "solve" =>
              call.sol.answer = ListV(<<NumV(vB), NumV(vA)>>)
         /\ call.op = "simulate" =>
              /\ call.sim.kind = "dict"
              /\ call.sim.d.velocity_a_final = vB
              /\ call.sim.d.velocity_b_final = vA )

\* every operation of the closed form on the colliding objects of the call
\* is exact in floating point, so the solver's floats are the real values
NoRounding ==
    LET total == QAdd(mA, mB)
        na == QAdd(QMul(QSub(mA, mB), vA), QMul(QMul(QInt(2), mB), vB))
        nb == QAdd(QMul(QSub(mB, mA), vB), QMul(QMul(QInt(2), mA), vA))
    IN  \A x \in { mA, mB, vA, vB, total,
                   QSub(mA, mB), QMul(QSub(mA, mB), vA),
                   QMul(QInt(2), mB), QMul(QMul(QInt(2), mB), vB), na,
                   QSub(mB, mA), QMul(QSub(mB, mA), vB),
                   QMul(QInt(2), mA), QMul(QMul(QInt(2), mA), vA), nb,
                   QDiv(na, total), QDiv(nb, total) } : IsFloat(x)

\* C15: for positive masses the solver's final velocities conserve
\* momentum, mA vA + mB vB = mA vA' + mB vB', in exact arithmetic (on the
\* inputs whose closed form is computed without rounding)
C15_MomentumConserved ==
    ( /\ call.op = "solve"
      /\ Colliding
      /\ QLt(Zero, mA) /\ QLt(Zero, mB)
      /\ NoRounding )
    => ( /\ call.sol.kind = "solution"
         /\ QAdd(QMul(mA, vA), QMul(mB, vB))
              = QAdd(QMul(mA, call.sol.answer.xs[1].q),
                     QMul(mB, call.sol.answer.xs[2].q)) )

\* unequal positive masses collided and both objects changed velocity
C15_Witness ==
    /\ call.op = "solve"
    /\ Colliding
    /\ QLt(Zero, mA) /\ QLt(Zero, mB) /\ mA # mB
    /\ NoRounding
    /\ call.sol.kind = "solution"
    /\ call.sol.answer.xs[1].q # vA
    /\ call.sol.answer.xs[2].q # vB

\* the derived value and the unit selected by quantity_asked, per family
Selected(type, quantity) ==
    CASE type = "projectile" ->
           IF quantity = "max_height" THEN <<"max_height", "m">>
           ELSE IF quantity = "time_flight" THEN <<"time_flight", "s">>
           ELSE <<"range", "m">>
      [] type = "free_fall" ->
           IF quantity = "distance" THEN <<"distance", "m">>
           ELSE IF quantity = "time_fall" THEN <<"time_fall", "s">>
           ELSE <<"final_velocity", "m/s">>
      [] type = "pendulum" ->
           IF quantity = "max_velocity" THEN <<"max_velocity", "m/s">>
           ELSE <<"period", "s">>

\* C16: solve_problem picks answer and unit from quantity_asked with a fixed
\* default per family (range in m, final_velocity in m/s, period in s; the
\* pair of final velocities in m/s for COLLISION), and the answer is the
\* derived value the selected quantity names
C16_AnswerFollowsQuantityAsked ==
    (call.op = "solve" /\ call.sol.kind = "solution")
    => IF call.problem.problem_type = "collision"
       THEN /\ call.sol.unit = "m/s"
            /\ call.sol.answer =
                 ListV(<<NumV(call.sol.visualization_data.velocity_a_final),
                         NumV(call.sol.visualization_data.velocity_b_final)>>)
       ELSE LET sel == Selected(call.problem.problem_type,
                                call.problem.quantity_asked)
            IN  /\ call.sol.unit = sel[2]
                /\ call.sol.answer = NumV(call.sol.visualization_data[sel[1]])

\* a time-based FREE_FALL problem asked for time_fall was answered with the
\* time, in seconds
C16_Witness ==
    /\ call.op = "solve"
    /\ call.problem.problem_type = "free_fall"
    /\ call.problem.quantity_asked = "time_fall"
    /\ "time" \in DOMAIN call.problem.initial_conditions
    /\ call.sol.kind = "solution"
    /\ call.sol.unit = "s"
    /\ call.sol.answer = NumV(R(2))

\* the projectile of the call never came down to height <= radius
NeverLands ==
    /\ call.problem.problem_type = "projectile"
    /\ \A i \in 1..Len(call.env.traj) : QLt(radius, call.env.traj[i].z)

\* C17: when a PROJECTILE simulation exhausts its budget of 10,000 steps
\* without the object ever reaching height <= radius, simulate signals a
\* failure instead of returning a {range, max_height, time_flight} result
C17_TimeoutSignalled ==
    (call.op = "simulate" /\ EngineHealthy /\ NeverLands)
    => call.sim.kind # "dict"

\* the physics engine would not fail during the call in a world of its own
NominalHealthy ==
    /\ call.nominal.connectOk
    /\ call.nominal.engineOk
    /\ call.nominal.disconnectOk

\* what the call returns on a SimulationEngine that has just been built
FreshResult == simulate(EngineInit, call.problem, call.nominal).ret

\* C18: simulate is history-independent: a simulate call returns what the
\* same call returns on a fresh engine, whatever simulate calls were made
\* on the instance before; nothing an earlier run left influences it
C18_HistoryIndependent ==
    (call.op = "simulate" /\ NominalHealthy) => call.sim = FreshResult

\* C19: two SimulationEngine instances share no mutable state: a simulate
\* call on one instance never changes the connection the other instance
\* holds nor the world behind it
C19_InstancesIndependent ==
    [][ (call'.op = "simulate_other" /\ engine.connected /\ server)
            => (engine'.connected /\ server') ]_vars

\* C20: simulations run one after another on the same instance each
\* succeed: a call that succeeds on a fresh engine never fails or reports an
\* error because of the runs made on the instance before
C20_RepeatedRunsSucceed ==
    (call.op = "simulate" /\ NominalHealthy /\ FreshResult.kind = "dict")
    => call.sim.kind = "dict"

\* C21: the connection flag tracks the real connection: whenever a call has
\* returned, the instance reports connected exactly when it holds an open
\* connection to the physics server (connected after a connect, not
\* connected after a disconnect, never a connection the flag does not show)
C21_FlagTracksConnection == engine.connected <=> server

\* C22: solving a problem of an unrecognized type does not raise:
\* solve_problem returns a Solution whose confidence is below 0.5
C22_UnknownTypeLowConfidence ==
    (call.op = "solve" /\ call.problem.problem_type \notin Families)
    => ( /\ call.sol.kind = "solution"
         /\ QLt(call.sol.confidence, Half) )

\* C23: every Solution solve_problem returns, for every supported family,
\* has more than two steps, method 'analytical' and confidence above 0.8
C23_SolutionIsExplained ==
    ( /\ call.op = "solve"
      /\ call.problem.problem_type \in Families
      /\ call.sol.kind = "solution" )
    => ( /\ call.sol.steps > 2
         /\ call.sol.method = "analytical"
         /\ QLt(<<4, 5>>, call.sol.confidence) )

\* the answer verify_solution was given is the analytical solver's own
OwnAnswerGiven ==
    /\ solve_problem(call.problem).kind = "solution"
    /\ call.answer = solve_problem(call.problem).answer

\* C24: for a COLLISION problem with two positive masses the simulator's
\* pair of final velocities equals the analytical solver's pair (in exact
\* arithmetic: on the inputs the solver computes without rounding), so
\* verify_solution on the solver's own answer returns error None,
\* agreement_score 1.0 and is_valid True; and the call neither connects to
\* the physics engine nor changes the connection state
C24_CollisionAgreesWithSolver ==
    ( /\ call.op = "verify"
      /\ Colliding
      /\ QLt(Zero, mA) /\ QLt(Zero, mB)
      /\ NoRounding
      /\ OwnAnswerGiven )
    => ( /\ call.sim.kind = "dict"
         /\ call.answer = ListV(<<NumV(call.sim.d.velocity_a_final),
                                  NumV(call.sim.d.velocity_b_final)>>)
         /\ call.ver.error = NoError
         /\ call.ver.agreement_score = One
         /\ call.ver.is_valid = TRUE
         /\ engine = call.before
         /\ server = call.up )

\* the solver's answer to a collision of unequal masses, both objects
\* changing velocity, was verified against the simulator on an engine that
\* was connected and stayed so
C24_Witness ==
    /\ call.op = "verify"
    /\ Colliding
    /\ QLt(Zero, mA) /\ QLt(Zero, mB) /\ mA # mB
    /\ NoRounding
    /\ OwnAnswerGiven
    /\ call.answer.xs[1].q # vA
    /\ call.ver.is_valid
    /\ call.before.connected
    /\ engine.connected

\* the greatest of a non-empty set of floats
MaxOf(S) == CHOOSE m \in S : \A x \in S : QLe(x, m)

\* the steps of the projectile run of the call at which the body is at or
\* below the radius
Landings == {i \in 1..Len(call.env.traj) : QLe(call.env.traj[i].z, radius)}

\* the number of engine steps the run of the call reports
StepsTaken == QDiv(call.sim.d.time_flight, time_step)

\* C25: the PROJECTILE loop ends after at most 10,000 engine steps and
\* stops at the first step whose height is <= radius; time_flight is the
\* number of steps taken times 1/240, range the running maximum of the
\* horizontal position (never below 0), and max_height comes from the
\* running maximum of the height (from the initial height on, reported
\* less the radius)
C25_ProjectileLoop ==
    ( /\ call.op = "simulate"
      /\ call.problem.problem_type = "projectile"
      /\ call.sim.kind = "dict" )
    => LET traj == call.env.traj
           n == IF Landings = {} THEN max_steps
                ELSE CHOOSE i \in Landings : \A j \in Landings : i <= j
           seen == 1..(IF n < Len(traj) THEN n ELSE Len(traj))
           height == Get(call.problem.initial_conditions, "height", Zero)
       IN  /\ StepsTaken = QInt(n)
           /\ 1 <= n /\ n <= max_steps
           /\ call.sim.d.range = MaxOf({Zero} \cup {traj[i].x : i \in seen})
           /\ QLe(Zero, call.sim.d.range)
           /\ QAdd(call.sim.d.max_height, radius)
                = MaxOf({height} \cup {traj[i].z : i \in seen})

\* a projectile landed at its second step, farther out than at its first
C25_Witness ==
    /\ call.op = "simulate"
    /\ call.problem.problem_type = "projectile"
    /\ call.sim.kind = "dict"
    /\ StepsTaken = QInt(2)
    /\ call.sim.d.range = R(5)
    /\ call.sim.d.max_height = <<29, 10>>

\* the angle samples of the pendulum run of the call: sample i is the angle
\* after step i + 1, for i = 0 .. SampleCount - 1
SampleCount ==
    LET length == Get(call.problem.initial_conditions, "length", One)
        nominal == QMul(QMul(QInt(2), Pi), Sqrt(QDiv(length, GRAVITY)))
    IN  IntTrunc(QMul(QMul(QInt(3), nominal), QInt(240)))

Sample(i) == call.env.swing[(i % Len(call.env.swing)) + 1]

\* the samples, among count of them, whose sign differs from the sign of
\* the sample before
SignChanges(count) ==
    {i \in 1..(count - 1) :
        \/ Sample(i - 1) > 0 /\ Sample(i) < 0
        \/ Sample(i - 1) < 0 /\ Sample(i) > 0}

\* C26: the PENDULUM simulation reports period = 2 * (time of the last zero
\* crossing - time of the first) / (number of crossings - 1) when at least
\* two zero crossings of the sampled angle were observed and the
\* small-angle period 2 pi sqrt(L / g) otherwise, over a run of
\* int(3 * nominal period / (1/240)) steps
C26_PendulumPeriod ==
    ( /\ call.op = "simulate"
      /\ call.problem.problem_type = "pendulum"
      /\ call.sim.kind = "dict" )
    => \A count \in {SampleCount} : \A changes \in {SignChanges(count)} :
         LET length == Get(call.problem.initial_conditions, "length", One)
             n == Cardinality(changes)
             first == CHOOSE i \in changes : \A j \in 1..(i - 1) : j \notin changes
             last == CHOOSE i \in changes :
                         \A j \in (i + 1)..(count - 1) : j \notin changes
         IN  /\ count >= 1
             /\ call.sim.d.period =
                  IF n >= 2
                  THEN QDiv(QMul(QInt(2), Q(last - first, 240)), QInt(n - 1))
                  ELSE QMul(QMul(QInt(2), Pi), Sqrt(QDiv(length, GRAVITY)))

\* a run of six samples that change sign at every step: five crossings
\* four steps apart, a measured period of 2 * (4/240) / 4
C26_Witness ==
    /\ call.op = "simulate"
    /\ call.problem.problem_type = "pendulum"
    /\ call.sim.kind = "dict"
    /\ SampleCount = 6
    /\ Cardinality(SignChanges(6)) = 5
    /\ call.sim.d.period = <<1, 120>>

\* C27: the simulated quantity verify_solution compares against is the
\* quantity solve_problem returns as the answer for the problem, for every
\* quantity_asked (missing and unrecognized ones included): the answer is
\* scored against, and shown with, the simulated value of that quantity
C27_SameQuantityCompared ==
    ( /\ call.op = "verify"
      /\ call.problem.problem_type \in {"projectile", "free_fall", "pendulum"}
      /\ call.sim.kind = "dict"
      /\ call.answer.t = "num"
      /\ OwnAnswerGiven \/ call.problem.problem_type = "projectile" )
    => LET sel == Selected(call.problem.problem_type,
                           call.problem.quantity_asked)
       IN  /\ sel[1] \in DOMAIN call.sim.d
           /\ call.ver.error = NoError
           /\ call.ver.simulation_result
                = Display(<<Round2(call.sim.d[sel[1]])>>, sel[2])
           /\ call.ver.agreement_score
                = ExpectedScore(call.answer.q, call.sim.d[sel[1]])

\* C28: every simulate call makes at most max_steps = 10,000 engine steps,
\* for every problem family and every input
C28_StepBudget ==
    call.op \in {"simulate", "verify"} => call.steps <= max_steps

\* the samples, among count of them, at which the angle has changed sign:
\* the sample is not zero and the last non-zero sample before it has the
\* other sign (the samples repeat the pattern, so that sample lies within
\* one pattern length)
TrueSignChanges(count) ==
    {i \in 1..(count - 1) :
        /\ Sample(i) # 0
        /\ \E k \in (i - Len(call.env.swing))..(i - 1) :
              /\ k >= 0
              /\ Sample(k) * Sample(i) < 0
              /\ \A m \in (k + 1)..(i - 1) : Sample(m) = 0}

\* C29: in the PENDULUM simulation every change of sign of the sampled
\* angle is recorded as exactly one zero crossing, also when a sample is
\* exactly zero between a positive and a negative one: zero_crossings has
\* one entry per change of sign
C29_EverySignChangeCounted ==
    ( /\ call.op = "simulate"
      /\ call.problem.problem_type = "pendulum"
      /\ call.sim.kind = "dict" )
    => \A count \in {SampleCount} :
         Cardinality(ZeroCrossings(call.env.swing, count))
           = Cardinality(TrueSignChanges(count))

\* C30: every store_problem_solution call that returns is recorded in
\* success_patterns: after n calls with the same (method, problem_type) the
\* usage_count of the row is n (the first call creates the row, each later
\* call adds one)
C30_PatternCountsUses ==
    \A k \in PatternKeys : memory.success_patterns[k].usage_count = uses[k]

====
